---------------------------- MODULE Spec2Model ----------------------------
(***************************************************************************)
(* A model of SemanticProcessor (backend/app/core/semantic_processor.py):  *)
(* the embedding cache of one processor instance, the per-item embedding   *)
(* resolution of compute_distances, the pairwise cosine-distance table,    *)
(* and the two document operations get_document_summary and                *)
(* process_document_query.                                                 *)
(*                                                                         *)
(* Every public call runs in a frame of its own thread.  A call is cut     *)
(* into steps at the points where it reads or writes the shared cache or   *)
(* blocks on a collaborator (Text Extractor, Embedding Provider,           *)
(* Completion Provider); everything local between two such points belongs  *)
(* to the step before it.  Spec runs one call at a time; SpecConc lets     *)
(* the threads' steps interleave.                                          *)
(*                                                                         *)
(* Strings are sequences of tokens, "" is << >>.  A path is the sequence   *)
(* of its components.  Floats are fixed-point numbers in units of 1/Scale, *)
(* with NaN and the infinities kept apart.                                 *)
(***************************************************************************)
EXTENDS Integers, Sequences, FiniteSets, TLC

(***************************************************************************)
(* Bounds of the model.                                                    *)
(***************************************************************************)
\* longest item list handed to compute_distances
MaxItems == 3
\* document-backed embedding requests over the processor's lifetime
MaxRequests == 2
\* item lists of a SpecConc call are no longer than this
MaxConcItems == 1
\* fixed-point unit of the float model: 1.0 is Scale
Scale == 100

(***************************************************************************)
(* Program constants.                                                      *)
(***************************************************************************)
\* text[:2000] of the document summary
ContentLimit == 2000
\* text[:8191], the embedding API's input limit
EmbedLimit == 8191

Threads == {1, 2}

(***************************************************************************)
(* Values.                                                                 *)
(***************************************************************************)
\* Optional[np.ndarray]: None, or an array
NoneEmb == [ok |-> FALSE, v |-> << >>]
Some(v) == [ok |-> TRUE, v |-> v]

\* the vectors the Embedding Provider may answer with: the dimension is the
\* provider's, and nothing in the processor checks it
Vectors == { <<1, 0>>, <<1, 1>>, <<-1, 0>>, <<1>>, <<0>> }

\* the vectors it answers two concurrent callers with
ConcVectors == { <<1, 1>>, <<0>> }

\* what one Embedding Provider call can end in: an exception, or a vector
ProviderOutcomes(vectors) == {NoneEmb} \cup {Some(v) : v \in vectors}

DocPath == <<"docs", "p.pdf">>
Paths == {DocPath}

\* what the Text Extractor can hand back for a path: "" or the file's text
ExtractOutcomes(path) == { << >>, <<"text of ", path[Len(path)]>> }

ItemA == [id |-> "a", name |-> <<"Cat">>]
ItemB == [id |-> "b", name |-> <<"Dog">>, description |-> <<"fast">>,
          documentPath |-> << >>]
ItemC == [id |-> "c", name |-> <<"Car">>, description |-> << >>,
          documentPath |-> DocPath]
\* a malformed item: no name
ItemM == [id |-> "m", description |-> <<"nameless">>]

Catalogue == {ItemA, ItemB, ItemC, ItemM}

\* the items two concurrent callers send: a plain one, and one with a document
ConcCatalogue == {ItemA, ItemC}

\* the lists of at most n items of a catalogue, no item twice
ItemLists(catalogue, n) ==
    UNION { {s \in [1..k -> catalogue] : \A i, j \in 1..k : i # j => s[i] # s[j]}
            : k \in 0..n }

HasKey(item, key) == key \in DOMAIN item

\* Python truth of a string
Truthy(str) == Len(str) > 0

(***************************************************************************)
(* Floats.                                                                 *)
(***************************************************************************)
F(n) == [kind |-> "num", val |-> n]
NaN == [kind |-> "nan", val |-> 0]
PosInf == [kind |-> "inf", val |-> 1]
NegInf == [kind |-> "inf", val |-> -1]

\* x < y as Python compares floats: false as soon as one is NaN
FLess(x, y) ==
    CASE x.kind = "nan" \/ y.kind = "nan" -> FALSE
      [] x.kind = "inf" /\ y.kind = "inf" -> x.val < y.val
      [] x.kind = "inf" -> x.val < 0
      [] y.kind = "inf" -> y.val > 0
      [] OTHER -> x.val < y.val

\* min with its arguments the other way round: min(b, a)
PyMinSwapped(a, b) == IF FLess(a, b) THEN a ELSE b

\* Python's min(a, b): b when b < a, else a
PyMin(a, b) == IF FLess(b, a) THEN b ELSE a

\* Python's max(a, b): b when b > a, else a
PyMax(a, b) == IF FLess(a, b) THEN b ELSE a

\* 1 - x
OneMinus(x) ==
    CASE x.kind = "nan" -> NaN
      [] x.kind = "inf" -> IF x.val > 0 THEN NegInf ELSE PosInf
      [] OTHER -> F(Scale - x.val)

Abs(n) == IF n < 0 THEN -n ELSE n

\* n / d rounded towards zero
TruncDiv(n, d) == IF (n < 0) = (d < 0) THEN Abs(n) \div Abs(d) ELSE -(Abs(n) \div Abs(d))

RECURSIVE SqrtSearch(_, _, _)
SqrtSearch(n, lo, hi) ==
    IF lo >= hi THEN lo
    ELSE LET mid == (lo + hi + 1) \div 2
         IN IF mid * mid <= n THEN SqrtSearch(n, mid, hi) ELSE SqrtSearch(n, lo, mid - 1)

\* the integer square root
ISqrt(n) == SqrtSearch(n, 0, n)

RECURSIVE SumProd(_, _, _)
SumProd(a, b, i) == IF i > Len(a) THEN 0 ELSE a[i] * b[i] + SumProd(a, b, i + 1)

\* np.dot of two 1-D arrays of one length, in units of 1/Scale
Dot(a, b) == Scale * SumProd(a, b, 1)

\* np.linalg.norm, rounded to the unit
Norm(a) == ISqrt(Scale * Scale * SumProd(a, a, 1))

\* x * y of two fixed-point numbers, rounded to the unit
FMul(x, y) == TruncDiv(x * y, Scale)

\* x / y as numpy divides float64 scalars: 0/0 is NaN, x/0 an infinity
FDiv(x, y) ==
    IF y = 0
    THEN (IF x = 0 THEN NaN ELSE IF x > 0 THEN PosInf ELSE NegInf)
    ELSE F(TruncDiv(x * Scale, y))

\* np.dot(emb1, emb2) / (np.linalg.norm(emb1) * np.linalg.norm(emb2))
Similarity(emb1, emb2) == FDiv(Dot(emb1, emb2), FMul(Norm(emb1), Norm(emb2)))

\* the distance left as it is
NoClamp(x) == x

\* max(0, min(1, 1 - similarity))
Clamp(x) == PyMax(F(0), PyMin(F(Scale), x))

\* _compute_distance: np.dot raises on arrays of two lengths, and the
\* handler answers 1.0
_compute_distance(emb1, emb2) ==
    IF Len(emb1) # Len(emb2)
    THEN F(Scale)
    ELSE Clamp(OneMinus(Similarity(emb1, emb2)))

(***************************************************************************)
(* Dictionaries.  item_embeddings keeps insertion order (a sequence of     *)
(* entries with one entry per id); the cache and the distance table are    *)
(* functions of their keys.                                                *)
(***************************************************************************)
\* d[key] = value of a dict modelled as a function
DictSet(d, key, value) ==
    [k \in DOMAIN d \cup {key} |-> IF k = key THEN value ELSE d[k]]

\* item_embeddings[id] = emb: a known id keeps its place, a new one goes last
SetItem(d, id, emb) ==
    IF \E i \in 1..Len(d) : d[i].id = id
    THEN [i \in 1..Len(d) |-> IF d[i].id = id THEN [id |-> id, emb |-> emb] ELSE d[i]]
    ELSE Append(d, [id |-> id, emb |-> emb])

EmptyTable == [k \in {} |-> NaN]

\* s[:n], lengths counted in tokens
Take(s, n) == SubSeq(s, 1, IF Len(s) < n THEN Len(s) ELSE n)

\* os.path.basename
Basename(path) == IF Len(path) = 0 THEN << >> ELSE <<path[Len(path)]>>

\* a key without its prefix
DocKeyBare(path) == path

\* f"doc:{document_path}"
DocKey(path) == <<"doc:">> \o path

\* f"Document: {os.path.basename(document_path)}\n\nContent: {text[:2000]}"
DocSummary(path, text) ==
    <<"Document: ">> \o Basename(path) \o <<"\n\nContent: ">> \o Take(text, ContentLimit)

\* the description appended whenever the key is there
NameTextAnyDescription(item) ==
    IF HasKey(item, "description")
    THEN item.name \o <<": ">> \o item.description
    ELSE item.name

\* the text of the name/description path: item['name'], and ": " +
\* item['description'] when the key is there and the string is not empty
NameText(item) ==
    IF HasKey(item, "description") /\ Truthy(item.description)
    THEN item.name \o <<": ">> \o item.description
    ELSE item.name

\* whether the item takes the document path of compute_distances
HasDocument(item) == HasKey(item, "documentPath") /\ Truthy(item.documentPath)

\* bool(ndarray): the element of a one-element array, ValueError for more
\* than one element, False for none
ArrayBool(v) ==
    CASE Len(v) = 0 -> "false"
      [] Len(v) = 1 -> IF v[1] # 0 THEN "true" ELSE "false"
      [] OTHER -> "raise"

\* `not embedding` of line 63
NotEmbedding(e) ==
    IF ~e.ok THEN "true"
    ELSE CASE ArrayBool(e.v) = "raise" -> "raise"
           [] ArrayBool(e.v) = "true" -> "false"
           [] OTHER -> "true"

RECURSIVE InnerLoop(_, _, _, _)
InnerLoop(d, i, j, distances) ==
    IF j > Len(d) THEN distances
    ELSE InnerLoop(d, i, j + 1,
                   DictSet(distances, <<d[i].id, d[j].id>>,
                           _compute_distance(d[i].emb, d[j].emb)))

RECURSIVE OuterLoop(_, _, _)
OuterLoop(d, i, distances) ==
    IF i > Len(d) THEN distances
    ELSE OuterLoop(d, i + 1, InnerLoop(d, i, i + 1, distances))

\* the pairwise loop of compute_distances over item_embeddings
PairwiseDistances(d) == OuterLoop(d, 1, EmptyTable)

(***************************************************************************)
(* State.                                                                  *)
(***************************************************************************)
VARIABLES
    openai_api_key,     \* whether OPENAI_API_KEY was set when the processor was built
    embeddings_cache,   \* self.embeddings_cache
    frame,              \* per thread: the running public call and its locals
    requests            \* history: every finished _get_document_embedding call

vars == <<openai_api_key, embeddings_cache, frame, requests>>

NoResult == [kind |-> "none", table |-> EmptyTable, text |-> << >>]
TableResult(t) == [kind |-> "table", table |-> t, text |-> << >>]
StringResult(s) == [kind |-> "string", table |-> EmptyTable, text |-> s]
Raised == [kind |-> "raised", table |-> EmptyTable, text |-> << >>]

\* a thread outside every call
IdleFrame ==
    [pc |-> "idle", op |-> "none", items |-> << >>, idx |-> 0, path |-> << >>,
     embedding |-> NoneEmb, item_embeddings |-> << >>, text |-> << >>,
     result |-> NoResult, fault |-> FALSE,
     sent |-> << >>, nExtract |-> 0, nDocEmbed |-> 0, nNameEmbed |-> 0]

Init ==
    /\ openai_api_key \in BOOLEAN
    /\ embeddings_cache = [k \in {} |-> << >>]
    /\ frame = [t \in Threads |-> IdleFrame]
    /\ requests = << >>

(***************************************************************************)
(* compute_distances.                                                      *)
(***************************************************************************)
\* a handler that lets the exception go on to the caller
FaultPropagates(f) == [f EXCEPT !.pc = "done", !.fault = TRUE, !.result = Raised]

\* the handler of lines 84-86: the call ends with the empty table
Fault(f) == [f EXCEPT !.pc = "done", !.fault = TRUE, !.result = TableResult(EmptyTable)]

\* lines 69-72 and the step to the next item: the embedding goes into
\* item_embeddings under item['id'], or the item is logged by item['name']
Record(f, e) ==
    LET item == f.items[f.idx]
        g == [f EXCEPT !.embedding = e]
    IN IF e.ok
       THEN IF HasKey(item, "id")
            THEN [g EXCEPT !.item_embeddings = SetItem(@, item.id, e.v),
                           !.idx = @ + 1, !.pc = "loop"]
            ELSE Fault(g)
       ELSE IF HasKey(item, "name")
            THEN [g EXCEPT !.idx = @ + 1, !.pc = "loop"]
            ELSE Fault(g)

\* line 63 once _get_document_embedding has returned e
AfterDocument(f, e) ==
    LET g == [f EXCEPT !.embedding = e]
    IN CASE NotEmbedding(e) = "raise" -> Fault(g)
         [] NotEmbedding(e) = "true" -> [g EXCEPT !.pc = "fallback"]
         [] OTHER -> Record(g, e)

\* a lookup that never finds its key
CacheLookupMisses(cache, key) == NoneEmb

\* lines 195-196: the cached embedding of a key, None for a miss
CacheLookup(cache, key) == IF key \in DOMAIN cache THEN Some(cache[key]) ELSE NoneEmb

\* a store that is left out
CacheStoreNothing(cache, key, e) == cache

\* a store that keeps the entry a key already has
CacheStoreIfAbsent(cache, key, e) ==
    IF e.ok /\ key \notin DOMAIN cache THEN DictSet(cache, key, e.v) ELSE cache

\* lines 209-210: an embedding is stored under its key, None is not
CacheStore(cache, key, e) == IF e.ok THEN DictSet(cache, key, e.v) ELSE cache

\* one finished _get_document_embedding call, for the history
Request(path, hit, f, e) ==
    [path |-> path, hit |-> hit, extract |-> f.nExtract, embed |-> f.nDocEmbed,
     sent |-> f.sent, res |-> e]

\* the document items of a list from index i on
DocItemsFrom(its, i) == {j \in i..Len(its) : HasDocument(its[j])}

\* the document requests a running call may still make
Pending(f) ==
    IF f.op # "compute_distances" \/ f.pc = "done" THEN 0
    ELSE Cardinality(DocItemsFrom(f.items, IF f.pc = "fallback" THEN f.idx + 1 ELSE f.idx))

PendingAll == Pending(frame[1]) + Pending(frame[2])

\* compute_distances(items) is called: lines 49-54
CallComputeDistances(t, items) ==
    /\ frame[t].pc = "idle"
    /\ Len(requests) + PendingAll + Cardinality(DocItemsFrom(items, 1)) <= MaxRequests
    /\ frame' = [frame EXCEPT ![t] =
                    [IdleFrame EXCEPT !.pc = "loop", !.op = "compute_distances",
                                      !.items = items, !.idx = 1,
                                      !.result = TableResult(EmptyTable)]]
    /\ UNCHANGED <<openai_api_key, embeddings_cache, requests>>

\* the next item of the loop, lines 55-60, and for a document item the cache
\* lookup of _get_document_embedding, lines 194-196
NextItem(t) ==
    LET f == frame[t]
        item == f.items[f.idx]
        g == [f EXCEPT !.embedding = NoneEmb, !.sent = << >>, !.text = << >>,
                       !.path = << >>,
                       !.nExtract = 0, !.nDocEmbed = 0, !.nNameEmbed = 0]
    IN /\ f.pc = "loop"
       /\ f.idx <= Len(f.items)
       /\ IF HasDocument(item)
          THEN LET path == item.documentPath
                   h == [g EXCEPT !.path = path]
                   cached == CacheLookup(embeddings_cache, DocKey(path))
               IN IF cached.ok
                  THEN /\ frame' = [frame EXCEPT ![t] = AfterDocument(h, cached)]
                       /\ requests' = Append(requests, Request(path, TRUE, h, cached))
                  ELSE /\ frame' = [frame EXCEPT ![t] = [h EXCEPT !.pc = "doc_extract"]]
                       /\ UNCHANGED requests
          ELSE /\ frame' = [frame EXCEPT ![t] = [g EXCEPT !.pc = "fallback"]]
               /\ UNCHANGED requests
       /\ UNCHANGED <<openai_api_key, embeddings_cache>>

\* _get_document_embedding calls the Text Extractor, lines 198-203
DocExtract(t) ==
    LET f == frame[t]
    IN /\ f.pc = "doc_extract"
       /\ \E text \in ExtractOutcomes(f.path) :
            LET g == [f EXCEPT !.text = text, !.nExtract = @ + 1]
            IN IF ~Truthy(text)
               THEN /\ frame' = [frame EXCEPT ![t] = AfterDocument(g, NoneEmb)]
                    /\ requests' = Append(requests, Request(f.path, FALSE, g, NoneEmb))
               ELSE /\ frame' = [frame EXCEPT ![t] = [g EXCEPT !.pc = "doc_embed"]]
                    /\ UNCHANGED requests
       /\ UNCHANGED <<openai_api_key, embeddings_cache>>

\* _get_document_embedding embeds the summary and stores it, lines 205-212
DocEmbed(t, vectors) ==
    LET f == frame[t]
    IN /\ f.pc = "doc_embed"
       /\ \E e \in ProviderOutcomes(vectors) :
            LET g == [f EXCEPT !.sent = Take(DocSummary(f.path, f.text), EmbedLimit),
                               !.nDocEmbed = @ + 1]
            IN /\ embeddings_cache' = CacheStore(embeddings_cache, DocKey(f.path), e)
               /\ frame' = [frame EXCEPT ![t] = AfterDocument(g, e)]
               /\ requests' = Append(requests, Request(f.path, FALSE, g, e))
       /\ UNCHANGED openai_api_key

\* the name/description path, lines 63-72, with _get_text_embedding
Fallback(t, vectors) ==
    LET f == frame[t]
        item == f.items[f.idx]
    IN /\ f.pc = "fallback"
       /\ IF ~HasKey(item, "name")
          THEN frame' = [frame EXCEPT ![t] = Fault(f)]
          ELSE \E e \in ProviderOutcomes(vectors) :
                 LET g == [f EXCEPT !.sent = Take(NameText(item), EmbedLimit),
                                    !.nNameEmbed = @ + 1]
                 IN frame' = [frame EXCEPT ![t] = Record(g, e)]
       /\ UNCHANGED <<openai_api_key, embeddings_cache, requests>>

\* the pairwise loop and the return, lines 74-82
ComputePairs(t) ==
    LET f == frame[t]
    IN /\ f.pc = "loop"
       /\ f.idx > Len(f.items)
       /\ frame' = [frame EXCEPT ![t] =
                       [f EXCEPT !.pc = "done",
                                 !.result = TableResult(PairwiseDistances(f.item_embeddings))]]
       /\ UNCHANGED <<openai_api_key, embeddings_cache, requests>>

\* the caller takes the result of a finished call
Return(t) ==
    /\ frame[t].pc = "done"
    /\ frame' = [frame EXCEPT ![t] = IdleFrame]
    /\ UNCHANGED <<openai_api_key, embeddings_cache, requests>>

(***************************************************************************)
(* get_document_summary and process_document_query.                        *)
(***************************************************************************)
\* the handlers of lines 119-121 and 158-160: the call ends with a message
ErrorString(f, prefix) ==
    [f EXCEPT !.pc = "done", !.fault = TRUE, !.result = StringResult(<<prefix, "str(e)">>)]

\* lines 100-104 and 139-143: the text is extracted, and "" ends the call
ExtractForCompletion(f, text) ==
    IF ~Truthy(text)
    THEN [f EXCEPT !.pc = "done", !.text = text,
                   !.result = StringResult(<<"Could not extract text from document">>)]
    ELSE [f EXCEPT !.pc = "complete", !.text = text]

\* get_document_summary(document_path) is called: lines 98-104
CallSummary(t, path) ==
    /\ frame[t].pc = "idle"
    /\ \E text \in ExtractOutcomes(path) :
         frame' = [frame EXCEPT ![t] =
                      ExtractForCompletion(
                          [IdleFrame EXCEPT !.op = "get_document_summary", !.path = path,
                                            !.nExtract = 1],
                          text)]
    /\ UNCHANGED <<openai_api_key, embeddings_cache, requests>>

\* process_document_query(document_path, query) is called: lines 134-143
CallQuery(t, path) ==
    /\ frame[t].pc = "idle"
    /\ LET f == [IdleFrame EXCEPT !.op = "process_document_query", !.path = path]
       IN IF ~openai_api_key
          THEN frame' = [frame EXCEPT ![t] =
                           [f EXCEPT !.pc = "done",
                                     !.result = StringResult(<<"OpenAI API key not configured">>)]]
          ELSE \E text \in ExtractOutcomes(path) :
                 frame' = [frame EXCEPT ![t] =
                              ExtractForCompletion([f EXCEPT !.nExtract = 1], text)]
    /\ UNCHANGED <<openai_api_key, embeddings_cache, requests>>

\* the Completion Provider answers or fails: lines 107-121 and 146-160
Complete(t) ==
    LET f == frame[t]
    IN /\ f.pc = "complete"
       /\ \E answered \in BOOLEAN :
            frame' = [frame EXCEPT ![t] =
                IF answered
                THEN [f EXCEPT !.pc = "done", !.result = StringResult(<<"content">>)]
                ELSE ErrorString(f, IF f.op = "get_document_summary"
                                    THEN "Error summarizing document: "
                                    ELSE "Error processing query: ")]
       /\ UNCHANGED <<openai_api_key, embeddings_cache, requests>>

(***************************************************************************)
(* Specifications.                                                         *)
(***************************************************************************)
\* the steps of a compute_distances call of thread t on one of the lists, the
\* Embedding Provider answering with one of the vectors
DistanceStep(t, lists, vectors) ==
    \/ \E items \in lists : CallComputeDistances(t, items)
    \/ NextItem(t)
    \/ DocExtract(t)
    \/ DocEmbed(t, vectors)
    \/ Fallback(t, vectors)
    \/ ComputePairs(t)
    \/ Return(t)

\* the steps of the two document operations
DocumentStep(t) ==
    \/ \E path \in Paths : CallSummary(t, path)
    \/ \E path \in Paths : CallQuery(t, path)
    \/ Complete(t)

\* sequential use: one caller, one call at a time
Next == DistanceStep(1, ItemLists(Catalogue, MaxItems), Vectors) \/ DocumentStep(1)

Spec == Init /\ [][Next]_vars

\* two callers share the processor and their compute_distances calls interleave
NextConc ==
    \E t \in Threads : DistanceStep(t, ItemLists(ConcCatalogue, MaxConcItems), ConcVectors)

SpecConc == Init /\ [][NextConc]_vars

(***************************************************************************)
(* What the properties below speak of.                                     *)
(***************************************************************************)
\* thread t's compute_distances call has ended and its result is not yet taken
Ended(t) == frame[t].op = "compute_distances" /\ frame[t].pc = "done"

\* ... and it ended by the return of line 82
Completed(t) == Ended(t) /\ ~frame[t].fault

\* an item list of the data model: every item has an id and a name, no id twice
WellFormed(items) ==
    /\ \A i \in 1..Len(items) : HasKey(items[i], "id") /\ HasKey(items[i], "name")
    /\ \A i, j \in 1..Len(items) : i # j => items[i].id # items[j].id

\* the keys (id_a, id_b) of the pairs of a mapping d, id_a entered before id_b
OrderedPairs(d) ==
    { <<d[p[1]].id, d[p[2]].id>> : p \in {q \in (1..Len(d)) \X (1..Len(d)) : q[1] < q[2]} }

\* the place in the input of the first item with an id
Position(items, id) == CHOOSE i \in 1..Len(items) : items[i].id = id

\* the ids of a mapping
Ids(d) == {d[i].id : i \in 1..Len(d)}

(***************************************************************************)
(* C1.  A compute_distances call on items with unique ids, k of which      *)
(* resolve to an embedding, returns a table of exactly k*(k-1)/2 entries:  *)
(* one entry (id_a, id_b) for each pair of embedded items, id_a before     *)
(* id_b in input order, and no entry that mentions an item that did not    *)
(* embed.                                                                  *)
(***************************************************************************)
C1_TableOfEmbeddedPairs ==
    \A t \in Threads :
        (Ended(t) /\ WellFormed(frame[t].items)) =>
            LET d == frame[t].item_embeddings
                k == Len(d)
                table == frame[t].result.table
            IN /\ 2 * Cardinality(DOMAIN table) = k * (k - 1)
               /\ DOMAIN table = OrderedPairs(d)
               /\ \A key \in DOMAIN table :
                    Position(frame[t].items, key[1]) < Position(frame[t].items, key[2])

(***************************************************************************)
(* C2.  An item with a non-empty documentPath whose document embedding is  *)
(* obtained (from the cache or from the provider) is recorded in the       *)
(* id-to-embedding mapping with that embedding and the call goes on; the   *)
(* name/description call is made only when the document step produced no   *)
(* embedding.                                                              *)
(***************************************************************************)
\* the document step of the item at hand has returned an embedding, and the
\* name/description path has not replaced it
DocumentEmbeddingObtained(f) ==
    /\ f.op = "compute_distances"
    /\ Len(f.path) > 0
    /\ f.embedding.ok
    /\ f.nNameEmbed = 0

C2_DocumentEmbeddingUsed ==
    \A t \in Threads :
        LET f == frame[t]
        IN DocumentEmbeddingObtained(f) =>
              /\ f.pc # "fallback"
              /\ ~f.fault
              /\ \E i \in 1..Len(f.item_embeddings) :
                    /\ f.item_embeddings[i].emb = f.embedding.v
                    /\ f.item_embeddings[i].id = f.items[f.idx - 1].id

(***************************************************************************)
(* C3.  Two document-backed embedding requests for one documentPath, one   *)
(* after the other on one processor, trigger in total exactly one Text     *)
(* Extractor call and one Embedding Provider call: the second is answered  *)
(* from the cache.                                                         *)
(***************************************************************************)
\* the finished requests for a path, oldest first
RequestsFor(path) == SelectSeq(requests, LAMBDA r : r.path = path)

\* the claim as it stands: of the first two requests for a path
C3_TwoRequestsOneCall ==
    \A path \in Paths :
        LET rs == RequestsFor(path)
        IN Len(rs) >= 2 =>
              /\ rs[1].extract + rs[2].extract = 1
              /\ rs[1].embed + rs[2].embed = 1
              /\ rs[2].hit

\* C3 as amended: when the first of two requests for a path misses the cache
\* and obtains an embedding, the two trigger in total exactly one Text
\* Extractor call and one Embedding Provider call, and the second is answered
\* from the cache with that embedding.
C3_SecondRequestIsCacheHit ==
    \A path \in Paths :
        LET rs == RequestsFor(path)
        IN \A i, j \in 1..Len(rs) :
              (i < j /\ ~rs[i].hit /\ rs[i].res.ok) =>
                  /\ rs[i].extract + rs[j].extract = 1
                  /\ rs[i].embed + rs[j].embed = 1
                  /\ rs[j].hit
                  /\ rs[j].res = rs[i].res

C3_Witness ==
    \E path \in Paths :
        LET rs == RequestsFor(path)
        IN /\ Len(rs) >= 2
           /\ ~rs[1].hit /\ rs[1].res.ok /\ rs[1].extract = 1 /\ rs[1].embed = 1
           /\ rs[2].hit /\ rs[2].extract = 0 /\ rs[2].embed = 0

(***************************************************************************)
(* C4.  No public operation lets a failure reach its caller:               *)
(* compute_distances returns a table, the empty one whenever its handler   *)
(* ran, and get_document_summary and process_document_query return a       *)
(* string.                                                                 *)
(***************************************************************************)
C4_NoFailureReachesCaller ==
    \A t \in Threads :
        LET f == frame[t]
        IN /\ f.result.kind # "raised"
           /\ f.pc = "done" =>
                 /\ f.op = "compute_distances" =>
                       /\ f.result.kind = "table"
                       /\ f.fault => f.result.table = EmptyTable
                 /\ f.op \in {"get_document_summary", "process_document_query"} =>
                       f.result.kind = "string"

\* a compute_distances call on a list with a nameless item, ended by its
\* handler when two embeddings were already there
C4_Witness ==
    \E t \in Threads :
        /\ Ended(t) /\ frame[t].fault
        /\ Len(frame[t].item_embeddings) >= 2
        /\ frame[t].result = TableResult(EmptyTable)
        /\ \E i \in 1..Len(frame[t].items) : ~HasKey(frame[t].items[i], "name")

(***************************************************************************)
(* C5.  Every key of the cache is "doc:" + documentPath and its value is   *)
(* an embedding the provider returned for that document's composed text;   *)
(* the name/description path and the two document operations leave the     *)
(* cache and the history of document requests as they are.                 *)
(***************************************************************************)
\* the document paths the callers know
DocumentPaths == {item.documentPath : item \in {i \in Catalogue : HasDocument(i)}}

C5_CacheHoldsDocuments ==
    \A key \in DOMAIN embeddings_cache :
        /\ Len(key) > 1
        /\ key[1] = "doc:"
        /\ Tail(key) \in DocumentPaths
        /\ \E n \in 1..Len(requests) :
              LET r == requests[n]
              IN /\ r.path = Tail(key)
                 /\ ~r.hit
                 /\ r.res = Some(embeddings_cache[key])
                 /\ \E text \in ExtractOutcomes(r.path) :
                       /\ Truthy(text)
                       /\ r.sent = <<"Document: ", r.path[Len(r.path)], "\n\nContent: ">> \o text

\* a step of the name/description path or of a document operation
OutsideDocumentPath ==
    \E t \in Threads :
        /\ frame'[t] # frame[t]
        /\ \/ frame[t].pc \in {"fallback", "complete"}
           \/ frame'[t].op \in {"get_document_summary", "process_document_query"}

C5_CacheOnlyForDocuments ==
    [][ /\ C5_CacheHoldsDocuments'
        /\ OutsideDocumentPath =>
              /\ embeddings_cache' = embeddings_cache
              /\ requests' = requests ]_vars

\* a cache with an entry, in a call that has sent the provider a document text
\* and then a name/description text for one item
C5_Witness ==
    /\ DOMAIN embeddings_cache # {}
    /\ \E t \in Threads :
          /\ frame[t].op = "compute_distances"
          /\ frame[t].nNameEmbed = 1
          /\ frame[t].nDocEmbed = 1

(***************************************************************************)
(* C6.  Every value of every table compute_distances returns lies in       *)
(* [0, 1], also for pairs whose raw cosine similarity is negative or       *)
(* falls outside [-1, 1].                                                  *)
(***************************************************************************)
InUnitInterval(x) == x.kind = "num" /\ 0 <= x.val /\ x.val <= Scale

C6_DistancesInUnitInterval ==
    \A t \in Threads :
        frame[t].op = "compute_distances" =>
            \A key \in DOMAIN frame[t].result.table :
                InUnitInterval(frame[t].result.table[key])

\* a returned table with a pair of similarity above 1 and a pair of negative
\* similarity
C6_Witness ==
    \E t \in Threads :
        /\ Completed(t)
        /\ LET d == frame[t].item_embeddings
           IN /\ \E i, j \in 1..Len(d) :
                    /\ i < j /\ Len(d[i].emb) = Len(d[j].emb)
                    /\ Similarity(d[i].emb, d[j].emb).kind = "num"
                    /\ Similarity(d[i].emb, d[j].emb).val > Scale
                    /\ frame[t].result.table[<<d[i].id, d[j].id>>] = F(0)
              /\ \E i, j \in 1..Len(d) :
                    /\ i < j /\ Len(d[i].emb) = Len(d[j].emb)
                    /\ Similarity(d[i].emb, d[j].emb).kind = "num"
                    /\ Similarity(d[i].emb, d[j].emb).val < 0
                    /\ frame[t].result.table[<<d[i].id, d[j].id>>] = F(Scale)

(***************************************************************************)
(* C7.  _compute_distance answers the maximal distance 1.0, never NaN and  *)
(* never an exception, when an embedding has zero norm or the two          *)
(* dimensions differ, so the pairwise loop goes on and every pair of       *)
(* embedded items has its entry.                                           *)
(***************************************************************************)
ZeroNorm(v) == \A i \in 1..Len(v) : v[i] = 0

C7_BadVectorIsMaximalDistance ==
    \A t \in Threads :
        Completed(t) =>
            LET d == frame[t].item_embeddings
                table == frame[t].result.table
            IN \A i, j \in 1..Len(d) :
                  i < j =>
                     /\ <<d[i].id, d[j].id>> \in DOMAIN table
                     /\ (ZeroNorm(d[i].emb) \/ ZeroNorm(d[j].emb)
                            \/ Len(d[i].emb) # Len(d[j].emb)) =>
                           table[<<d[i].id, d[j].id>>] = F(Scale)

\* a returned table of three pairs: a zero-norm vector against one of its
\* own dimension, and a pair of two dimensions
C7_Witness ==
    \E t \in Threads :
        /\ Completed(t)
        /\ LET d == frame[t].item_embeddings
           IN /\ Len(d) = 3
              /\ Cardinality(DOMAIN frame[t].result.table) = 3
              /\ \E i, j \in 1..3 :
                    i < j /\ Len(d[i].emb) = Len(d[j].emb) /\ ZeroNorm(d[i].emb)
              /\ \E i, j \in 1..3 : i < j /\ Len(d[i].emb) # Len(d[j].emb)

(***************************************************************************)
(* C8.  For an item with a name whose document step produced no embedding  *)
(* (no or empty documentPath, empty extracted text, or a provider failure  *)
(* on the document text), compute_distances calls the Embedding Provider   *)
(* exactly once more, with item.name extended by ": " + item.description   *)
(* only when the description is there and not empty; the answer is the     *)
(* item's embedding, the cache stays as it is, and the item is left out    *)
(* of the mapping, and so of the pairs, only if this call fails too.       *)
(* Checked under sequential use, where the newest request of the history   *)
(* is the one of the item at hand.                                         *)
(***************************************************************************)
\* the item thread t has just resolved, and the call goes on or has returned
JustResolved(f) ==
    /\ f.op = "compute_distances"
    /\ f.idx > 1
    /\ f.pc = "loop" \/ (f.pc = "done" /\ ~f.fault)

\* the document step of that item produced no embedding
NoDocumentEmbedding(f) ==
    LET item == f.items[f.idx - 1]
    IN \/ ~HasKey(item, "documentPath")
       \/ item.documentPath = << >>
       \/ /\ Len(requests) > 0
          /\ requests[Len(requests)].path = item.documentPath
          /\ requests[Len(requests)].res = NoneEmb

C8_FallbackState ==
    \A t \in Threads :
        LET f == frame[t]
            item == f.items[f.idx - 1]
        IN JustResolved(f) =>
              /\ f.nNameEmbed <= 1
              /\ NoDocumentEmbedding(f) => f.nNameEmbed = 1
              /\ f.nNameEmbed = 1 =>
                    /\ f.sent = IF "description" \in DOMAIN item /\ item.description # << >>
                                THEN item.name \o <<": ">> \o item.description
                                ELSE item.name
                    /\ f.embedding.ok =>
                          \E i \in 1..Len(f.item_embeddings) :
                              f.item_embeddings[i] = [id |-> item.id, emb |-> f.embedding.v]
                    /\ ~f.embedding.ok => item.id \notin Ids(f.item_embeddings)
              /\ (f.pc = "done" /\ item.id \in Ids(f.item_embeddings)) =>
                    \A id \in Ids(f.item_embeddings) \ {item.id} :
                        <<id, item.id>> \in DOMAIN f.result.table

Stores(rs) == {n \in 1..Len(rs) : ~rs[n].hit /\ rs[n].res.ok}

C9_EveryMissCallsAndLastStoreWins ==
    \A path \in Paths :
        LET rs == RequestsFor(path)
        IN /\ \A n \in 1..Len(rs) :
                 ~rs[n].hit =>
                    /\ rs[n].extract = 1
                    /\ rs[n].embed = IF rs[n].sent = << >> THEN 0 ELSE 1
           /\ Stores(rs) # {} =>
                 /\ DocKey(path) \in DOMAIN embeddings_cache
                 /\ \E n \in Stores(rs) :
                       /\ \A m \in Stores(rs) : m <= n
                       /\ embeddings_cache[DocKey(path)] = rs[n].res.v

\* two requests for one path that both missed and both stored, the second
\* replacing another embedding: two extractions and two provider calls
C9_Witness ==
    \E path \in Paths :
        LET rs == RequestsFor(path)
        IN /\ Len(rs) = 2
           /\ Stores(rs) = {1, 2}
           /\ rs[1].extract + rs[2].extract = 2
           /\ rs[1].embed + rs[2].embed = 2
           /\ rs[1].res # rs[2].res
           /\ embeddings_cache[DocKey(path)] = rs[2].res.v

(***************************************************************************)
(* C10.  Under sequential use the cache only grows and every key is        *)
(* written once: no step removes a key or replaces its value, also not     *)
(* the end of a compute_distances call in its handler.                     *)
(***************************************************************************)
C10_CacheWriteOnce ==
    [][ \A key \in DOMAIN embeddings_cache :
            /\ key \in DOMAIN embeddings_cache'
            /\ embeddings_cache'[key] = embeddings_cache[key] ]_vars

\* a call ended by its handler, with the entry it stored still in the cache
C10_Witness ==
    \E t \in Threads :
        /\ Ended(t) /\ frame[t].fault
        /\ frame[t].nDocEmbed = 1
        /\ frame[t].result = TableResult(EmptyTable)
        /\ DocKey(frame[t].path) \in DOMAIN embeddings_cache
        /\ embeddings_cache[DocKey(frame[t].path)] = frame[t].embedding.v

=============================================================================
